---- MODULE Spec2Model ----
(***************************************************************************)
(* Model of package poller (poller.go, options.go): the configuration     *)
(* directives and New, one execution cycle (Poller.Poll), and the tick    *)
(* loop (Poller.Start) with its ticker and its cancellable context.       *)
(***************************************************************************)
EXTENDS Integers, Sequences, FiniteSets, TLC

VARIABLES
    phase,      \* "args": New not yet called; "built": New has returned
    args,       \* the arguments of New: [g, opts]
    p,          \* the Poller New returned: [interval, getter, pushers, onError]
    newErr,     \* the error New returned
    proc,       \* "up", or "panicked" once an unrecovered panic killed the process
    start,      \* Start's position: "idle", "RUNNING" (in the for/select),
                \* "STOPPED" (it has returned), "PANICKED" (NewTicker panicked)
    cancelled,  \* ctx.Done() of the context passed to Start is closed
    ticker,     \* the time.Ticker of Start: [active, period, fired], fired
                \* the number of its periods that have elapsed
    tickC,      \* number of ticks buffered in ticker.C (capacity 1)
    cycles,     \* every Poll invocation so far, in launch order
    ec,         \* the errorCapturer of the tests: [called, err]
    logged      \* what defaultOnError has written with log.Println

vars == <<phase, args, p, newErr, proc, start, cancelled, ticker, tickC,
          cycles, ec, logged>>

----------------------------------------------------------------------------
(* Bounds of the model.                                                    *)

MaxOpts == 3        \* longest option list handed to New
MaxRunOpts == 2     \* longest option list of a Poller that is run
MaxCycles == 2      \* most Poll invocations (by Start or directly) in a run
MaxTicks == 2       \* periods the ticker's clock is followed for

----------------------------------------------------------------------------
(* Values.                                                                 *)

NIL == "nil"

Last(s) == s[Len(s)]

DefaultInterval == 30000

\* A getter is nil (New(nil, ...) in TestNew) or a function.
Getters == {NIL, "getter"}

\* What one call of a getter function may return: (value, nil) or (nil, err).
Values == {"total0", "total100"}
ErrGet == "ErrGet"
GetterResults ==
    [val : Values, err : {NIL}] \cup [val : {NIL}, err : {ErrGet}]

\* The pushers of TestPoll_Poll: one fails with ErrWrongCount iff the value's
\* TotalItems is not 0, and one that fails whatever it is given.
ErrWrongCount == "ErrWrongCount"
ErrPush == "ErrPush"
PusherFns == {"puCount", "puFail"}

PusherResult(fn, v) ==
    CASE fn = "puCount" -> IF v # "total0" THEN ErrWrongCount ELSE NIL
      [] fn = "puFail"  -> ErrPush

\* The handlers a caller hands to SetOnError: the capturer of the tests, and
\* a handler that does nothing with the failure it is given.
Handlers == {"ec.onError", "drop"}

----------------------------------------------------------------------------
(* int64, the type of Poller.interval and of time.Duration: a value is its  *)
(* two's complement bits, in Limbs limbs of 16 bits, the lowest limb first. *)

Base == 65536
Limbs == 4

\* The int64 of a number small enough to be written in the model.
Int64(n) ==
    [j \in 1..Limbs |->
        IF j = 1 THEN n % Base
        ELSE IF j = 2 THEN (n \div Base) % Base
        ELSE IF n < 0 THEN Base - 1 ELSE 0]

Negative64(x) == x[Len(x)] >= Base \div 2
Zero64(x) == \A j \in 1..Len(x) : x[j] = 0
Positive64(x) == ~Negative64(x) /\ ~Zero64(x)

\* x * m + carry in the width of x, for a small m: the bits that do not fit
\* are lost, as Go's integer multiplication loses them.
RECURSIVE MulSmall(_, _, _)
MulSmall(x, m, carry) ==
    IF x = <<>> THEN <<>>
    ELSE LET t == Head(x) * m + carry
         IN  <<t % Base>> \o MulSmall(Tail(x), m, t \div Base)

\* time.Microsecond = 1000 * Nanosecond, time.Millisecond = 1000 * Microsecond.
Thousand == 1000

\* d * time.Millisecond, in nanoseconds.
TimesMillisecond(d) == MulSmall(MulSmall(d, Thousand, 0), Thousand, 0)

\* Intervals handed to SetInterval, in milliseconds.
Intervals == {Int64(v) : v \in {-1, 0, 1, 15000}}

\* int64 values from both ends of the range and from around the largest
\* number of milliseconds whose nanoseconds fit, 9223372036854
\* (limbs 23286, 31696, 2147, 0).
Int64s ==
    {<<a, b, c, d>> : a \in {0, 1, 23286, 23287, Base - 1},
                      b \in {0, 31696, Base - 1},
                      c \in {0, 2147, Base - 1},
                      d \in {0, Base \div 2 - 1, Base \div 2, Base - 1}}

----------------------------------------------------------------------------
(* options.go: the configuration directives.                               *)

\* An Option is a record: its kind, and the value or the function it was
\* made with (v of the others is not used).
NoValue == Int64(0)

SetInterval(v) == [kind |-> "SetInterval", v |-> v, fn |-> NIL]
SetPusher(fn)  == [kind |-> "SetPusher",   v |-> NoValue, fn |-> fn]
SetOnError(fn) == [kind |-> "SetOnError",  v |-> NoValue, fn |-> fn]
\* An Option of the caller's own that rejects its input: it returns err.
FailOpt(err)   == [kind |-> "Fail",        v |-> NoValue, fn |-> err]

ErrOpt == "ErrOpt"

Options ==
    {SetInterval(v) : v \in Intervals} \cup {SetPusher(fn) : fn \in PusherFns}
    \cup {SetOnError("ec.onError"), FailOpt(ErrOpt)}

\* ApplyOpt with a SetPusher that replaces the pushers instead of appending.
ApplyOpt_ReplacePushers(q, opt) ==
    CASE opt.kind = "SetInterval" ->
            [p |-> [q EXCEPT !.interval = opt.v], err |-> NIL]
      [] opt.kind = "SetPusher" ->
            [p |-> [q EXCEPT !.pushers = <<opt.fn>>], err |-> NIL]
      [] opt.kind = "SetOnError" ->
            [p |-> [q EXCEPT !.onError = opt.fn], err |-> NIL]
      [] opt.kind = "Fail" ->
            [p |-> q, err |-> opt.fn]

\* opt(&p): the Poller after the directive, and the error it returns.
ApplyOpt(q, opt) ==
    CASE opt.kind = "SetInterval" ->
            [p |-> [q EXCEPT !.interval = opt.v], err |-> NIL]
      [] opt.kind = "SetPusher" ->
            [p |-> [q EXCEPT !.pushers = Append(q.pushers, opt.fn)], err |-> NIL]
      [] opt.kind = "SetOnError" ->
            [p |-> [q EXCEPT !.onError = opt.fn], err |-> NIL]
      [] opt.kind = "Fail" ->
            [p |-> q, err |-> opt.fn]

----------------------------------------------------------------------------
(* poller.go: New.                                                         *)

\* DefaultPoller leaving every field but the getter at its zero value.
DefaultPoller_ZeroValue(g) ==
    [interval |-> Int64(0), getter |-> g, pushers |-> <<>>, onError |-> NIL]

\* p := Poller{interval: 30000, getter: g, onError: defaultOnError}
DefaultPoller(g) ==
    [interval |-> Int64(DefaultInterval), getter |-> g, pushers |-> <<>>,
     onError |-> "defaultOnError"]

\* ApplyOpts going on after a directive has failed, and returning the first
\* failure at the end.
RECURSIVE ApplyOpts_NoReturn(_, _)
ApplyOpts_NoReturn(q, opts) ==
    IF opts = <<>> THEN [p |-> q, err |-> NIL]
    ELSE LET r    == ApplyOpt(q, Head(opts))
             rest == ApplyOpts_NoReturn(r.p, Tail(opts))
         IN  [p |-> rest.p, err |-> IF r.err # NIL THEN r.err ELSE rest.err]

\* for _, opt := range opts { if err := opt(&p); err != nil { return p, err } }
RECURSIVE ApplyOpts(_, _)
ApplyOpts(q, opts) ==
    IF opts = <<>> THEN [p |-> q, err |-> NIL]
    ELSE LET r == ApplyOpt(q, Head(opts))
         IN  IF r.err # NIL THEN r ELSE ApplyOpts(r.p, Tail(opts))

New(g, opts) == ApplyOpts(DefaultPoller(g), opts)

----------------------------------------------------------------------------
(* poller.go: Poll, one execution cycle.  A cycle is a record               *)
(*   origin  who invoked Poll: "Start" (go p.Poll(ctx)) or "Poll" (a caller)*)
(*   pc      where the invocation stands                                   *)
(*   gr, err the getter's results, once it has returned                    *)
(*   i       index of the pusher the range loop is at                      *)
(*   log     the calls made and the results received, in order             *)

Event(ev, idx, fn, arg, err) ==
    [ev |-> ev, idx |-> idx, fn |-> fn, arg |-> arg, err |-> err]

NewCycle(origin) ==
    [origin |-> origin, pc |-> "start", gr |-> NIL, err |-> NIL, i |-> 0,
     log |-> <<>>]

\* PusherArg handing the pushers err, the other result of the getter.
PusherArg_Err(c) == c.err

\* The argument a pusher call is given: gr of this invocation.
PusherArg(c) == c.gr

\* PusherAt, ranging over the pushers from the last one to the first.
PusherAt_Reversed(q, i) == q.pushers[Len(q.pushers) - i + 1]

\* The function the i-th pusher call invokes.
PusherAt(q, i) == q.pushers[i]

\* CallOnError invoking defaultOnError whatever handler is configured.
CallOnError_Default(c, q, pc, e) ==
    [c EXCEPT !.pc = pc,
              !.log = Append(@, Event("onError", c.i, "defaultOnError", NIL, e))]

\* p.onError(ctx, e): the call.
CallOnError(c, q, pc, e) ==
    [c EXCEPT !.pc = pc,
              !.log = Append(@, Event("onError", c.i, q.onError, NIL, e))]

\* RangePushers leaving the loop once ctx is done.
RangePushers_CtxDone(c, q, i) ==
    IF i <= Len(q.pushers) /\ ~cancelled
    THEN [c EXCEPT !.pc = "inPusher", !.i = i,
                   !.log = Append(@, Event("pusher", i, q.pushers[i],
                                           c.gr, NIL))]
    ELSE [c EXCEPT !.pc = "done", !.i = i]

\* for _, pp := range p.pushers { err := pp(ctx, gr) ...: the loop reaches
\* pusher i and calls it, or is past the last one and Poll returns.
RangePushers(c, q, i) ==
    IF i <= Len(q.pushers)
    THEN [c EXCEPT !.pc = "inPusher", !.i = i,
                   !.log = Append(@, Event("pusher", i, PusherAt(q, i),
                                           PusherArg(c), NIL))]
    ELSE [c EXCEPT !.pc = "done", !.i = i]

\* AfterGetter starting every pusher at once (go pp(ctx, gr)) instead of
\* calling them one after the other.
AfterGetter_Parallel(c, q, r) ==
    LET c1 == [c EXCEPT !.gr = r.val, !.err = r.err,
                        !.log = Append(@, Event("getterRet", 0, q.getter,
                                                r.val, r.err))]
    IN  IF r.err # NIL THEN CallOnError(c1, q, "inErrG", r.err)
        ELSE IF q.pushers = <<>> THEN RangePushers(c1, q, 1)
        ELSE [c1 EXCEPT !.pc = "inPusher", !.i = 1,
                        !.log = @ \o [j \in 1..Len(q.pushers) |->
                                        Event("pusher", j, q.pushers[j],
                                              r.val, NIL)]]

\* AfterGetter raising the getter's failure instead of handing it to p.onError.
AfterGetter_Panic(c, q, r) ==
    LET c1 == [c EXCEPT !.gr = r.val, !.err = r.err,
                        !.log = Append(@, Event("getterRet", 0, q.getter,
                                                r.val, r.err))]
    IN  IF r.err # NIL THEN [c1 EXCEPT !.pc = "panic"]
        ELSE RangePushers(c1, q, 1)

\* AfterGetter without the return that follows p.onError(ctx, err): the range
\* loop runs after the handler.
AfterGetter_NoReturn(c, q, r) ==
    LET c1 == [c EXCEPT !.gr = r.val, !.err = r.err,
                        !.log = Append(@, Event("getterRet", 0, q.getter,
                                                r.val, r.err))]
    IN  IF r.err # NIL THEN CallOnError(c1, q, "inErrP", r.err)
        ELSE RangePushers(c1, q, 1)

\* gr, err := p.getter(ctx) has returned r:
\* if err != nil { p.onError(ctx, err); return }, else the range loop.
AfterGetter(c, q, r) ==
    LET c1 == [c EXCEPT !.gr = r.val, !.err = r.err,
                        !.log = Append(@, Event("getterRet", 0, q.getter,
                                                r.val, r.err))]
    IN  IF r.err # NIL THEN CallOnError(c1, q, "inErrG", r.err)
        ELSE RangePushers(c1, q, 1)

\* err := pp(ctx, gr) has returned e:
\* if err != nil { p.onError(ctx, err) }, else the next pusher.
AfterPusher(c, q, e) ==
    LET c1 == [c EXCEPT !.err = e,
                        !.log = Append(@, Event("pusherRet", c.i,
                                                PusherAt(q, c.i), NIL, e))]
    IN  IF e # NIL THEN CallOnError(c1, q, "inErrP", e)
        ELSE RangePushers(c1, q, c.i + 1)

\* AfterOnError trying the pusher that failed once more.
AfterOnError_Retry(c, q) ==
    LET c1 == [c EXCEPT !.log = Append(@, Event("onErrorRet", c.i, q.onError,
                                                NIL, NIL))]
    IN  IF c.pc = "inErrG" THEN [c1 EXCEPT !.pc = "done"]
        ELSE RangePushers(c1, q, c.i)

\* AfterOnError leaving the range loop at the first failure of a pusher.
AfterOnError_Break(c, q) ==
    [c EXCEPT !.pc = "done",
              !.log = Append(@, Event("onErrorRet", c.i, q.onError, NIL, NIL))]

\* p.onError has returned: return (it was the getter's failure), or the next
\* pusher (it was a pusher's).
AfterOnError(c, q) ==
    LET c1 == [c EXCEPT !.log = Append(@, Event("onErrorRet", c.i, q.onError,
                                                NIL, NIL))]
    IN  IF c.pc = "inErrG" THEN [c1 EXCEPT !.pc = "done"]
        ELSE RangePushers(c1, q, c.i + 1)

\* What a call of the handler does: defaultOnError prints err with
\* log.Println, the capturer of the tests records it, and any other handler
\* touches neither.
OnErrorEffect(c) ==
    IF c.pc \in {"inErrG", "inErrP"}
    THEN CASE Last(c.log).fn = "ec.onError" ->
                /\ ec' = [called |-> TRUE, err |-> Last(c.log).err]
                /\ UNCHANGED logged
           [] Last(c.log).fn = "defaultOnError" ->
                /\ logged' = Append(logged, Last(c.log).err)
                /\ UNCHANGED ec
           [] OTHER -> UNCHANGED <<ec, logged>>
    ELSE UNCHANGED <<ec, logged>>

Up == proc = "up" /\ phase = "built"

\* Receiver of methods that range over p.pushers by taking them off p.
Receiver_Consumed(q) ==
    [q EXCEPT !.pushers = IF @ = <<>> THEN @ ELSE Tail(@)]

\* func (p Poller) Start / Poll: the methods have value receivers and assign
\* no field of p, so a step of either leaves the Poller as it was.
Receiver(q) == q

\* A panic that nothing recovers ends the process, whichever goroutine it is in.
Crash(c) == IF c.pc = "panic" THEN "panicked" ELSE proc

\* The caller's goroutine is inside a Poll it invoked directly, or inside
\* Start: both are blocking calls.
InPoll == \E k \in 1..Len(cycles) : cycles[k].origin = "Poll" /\ cycles[k].pc # "done"
InStart == start = "RUNNING"

\* gr, err := p.getter(ctx): the call.  Calling a nil func value panics, and
\* nothing recovers it: the process dies.
CallGetter(c, q) ==
    [c EXCEPT !.pc = IF q.getter = NIL THEN "panic" ELSE "inGetter",
              !.log = Append(@, Event("getter", 0, q.getter, NIL, NIL))]

\* A caller invokes p.Poll(ctx) directly, which calls the getter.  Poll is a
\* blocking call: the caller invokes the next one when this one has returned.
PollCall ==
    /\ Up
    /\ ~InPoll /\ ~InStart
    /\ Len(cycles) < MaxCycles
    /\ LET c == CallGetter(NewCycle("Poll"), p)
       IN  /\ cycles' = Append(cycles, c)
           /\ proc' = Crash(c)
    /\ p' = Receiver(p)
    /\ UNCHANGED <<phase, args, newErr, start, cancelled, ticker, tickC, ec,
                   logged>>

\* A goroutine that Start launched with go p.Poll(ctx) begins to run, and
\* calls the getter.
GetterCall(k) ==
    /\ Up
    /\ cycles[k].pc = "start"
    /\ LET c == CallGetter(cycles[k], p)
       IN  /\ cycles' = [cycles EXCEPT ![k] = c]
           /\ proc' = Crash(c)
    /\ p' = Receiver(p)
    /\ UNCHANGED <<phase, args, newErr, start, cancelled, ticker, tickC, ec,
                   logged>>

\* The getter returns r, and Poll runs on to its next call or to its end.
GetterReturn(k, r) ==
    /\ Up
    /\ cycles[k].pc = "inGetter"
    /\ LET c == AfterGetter(cycles[k], p, r)
       IN  /\ cycles' = [cycles EXCEPT ![k] = c]
           /\ OnErrorEffect(c)
           /\ proc' = Crash(c)
    /\ p' = Receiver(p)
    /\ UNCHANGED <<phase, args, newErr, start, cancelled, ticker, tickC>>

\* The pusher returns, and Poll runs on to its next call or to its end.
PusherReturn(k) ==
    /\ Up
    /\ cycles[k].pc = "inPusher"
    /\ LET e == PusherResult(Last(cycles[k].log).fn, Last(cycles[k].log).arg)
           c == AfterPusher(cycles[k], p, e)
       IN  /\ cycles' = [cycles EXCEPT ![k] = c]
           /\ OnErrorEffect(c)
           /\ proc' = Crash(c)
    /\ p' = Receiver(p)
    /\ UNCHANGED <<phase, args, newErr, start, cancelled, ticker, tickC>>

\* p.onError returns, and Poll runs on to its next call or to its end.
OnErrorReturn(k) ==
    /\ Up
    /\ cycles[k].pc \in {"inErrG", "inErrP"}
    /\ LET c == AfterOnError(cycles[k], p)
       IN  /\ cycles' = [cycles EXCEPT ![k] = c]
           /\ proc' = Crash(c)
    /\ p' = Receiver(p)
    /\ UNCHANGED <<phase, args, newErr, start, cancelled, ticker, tickC, ec,
                   logged>>

----------------------------------------------------------------------------
(* poller.go: Start, its ticker and its context.                           *)

\* time.Duration(p.interval) * time.Millisecond: an int64 of nanoseconds.
TickerPeriod(q) == TimesMillisecond(q.interval)

\* ticker := time.NewTicker(d): NewTicker panics unless d > 0.
StartCall ==
    /\ Up
    /\ ~InPoll
    /\ start = "idle"
    /\ IF ~Positive64(TickerPeriod(p))
       THEN /\ proc' = "panicked"
            /\ start' = "PANICKED"
            /\ UNCHANGED ticker
       ELSE /\ start' = "RUNNING"
            /\ ticker' = [active |-> TRUE, period |-> TickerPeriod(p),
                          fired |-> 0]
            /\ UNCHANGED proc
    /\ p' = Receiver(p)
    /\ UNCHANGED <<phase, args, newErr, cancelled, tickC, cycles, ec, logged>>

\* The owner of the context cancels it.
Cancel ==
    /\ Up
    /\ ~cancelled
    /\ cancelled' = TRUE
    /\ UNCHANGED <<phase, args, p, newErr, proc, start, ticker, tickC, cycles,
                   ec, logged>>

\* TickerSend of a ticker that fires twice in each configured interval.
TickerSend_Double(c) == 2

\* The ticker sends on C when a period has elapsed; C holds one tick, and a
\* tick that finds it full is dropped.
TickerSend(c) == IF c < 1 THEN c + 1 ELSE c

\* One more period elapses on the running ticker's clock.
PeriodElapses ==
    /\ Up
    /\ ticker.active
    /\ ticker.fired < MaxTicks
    /\ ticker' = [ticker EXCEPT !.fired = @ + 1]
    /\ tickC' = TickerSend(tickC)
    /\ UNCHANGED <<phase, args, p, newErr, proc, start, cancelled, cycles, ec,
                   logged>>

\* SelectReady of a loop that only ranges over ticker.C.
SelectReady_NoDone(done, c) == IF c > 0 THEN {"ticker.C"} ELSE {}

\* The cases of the select that can proceed: select takes any one of them.
SelectReady(done, c) ==
    (IF done THEN {"ctx.Done"} ELSE {}) \cup (IF c > 0 THEN {"ticker.C"} ELSE {})

\* case <-ctx.Done(): ticker.Stop(); return
StartDone ==
    /\ Up
    /\ start = "RUNNING"
    /\ "ctx.Done" \in SelectReady(cancelled, tickC)
    /\ ticker' = [ticker EXCEPT !.active = FALSE]
    /\ start' = "STOPPED"
    /\ p' = Receiver(p)
    /\ UNCHANGED <<phase, args, newErr, proc, cancelled, tickC, cycles, ec,
                   logged>>

\* Receive leaving the tick it has received in the channel.
Receive_Keep(c) == c

\* <-ticker.C takes one tick out of the channel.
Receive(c) == c - 1

\* case <-ticker.C: go p.Poll(ctx)
StartTick ==
    /\ Up
    /\ start = "RUNNING"
    /\ "ticker.C" \in SelectReady(cancelled, tickC)
    /\ Len(cycles) < MaxCycles
    /\ tickC' = Receive(tickC)
    /\ cycles' = Append(cycles, NewCycle("Start"))
    /\ p' = Receiver(p)
    /\ UNCHANGED <<phase, args, newErr, proc, start, cancelled, ticker, ec,
                   logged>>

----------------------------------------------------------------------------
(* Specifications.                                                         *)

NoTicker == [active |-> FALSE, period |-> Int64(0), fired |-> 0]
NoPoller == DefaultPoller(NIL)

RECURSIVE SeqsUpTo(_, _)
SeqsUpTo(S, n) ==
    IF n = 0 THEN {<<>>}
    ELSE LET R == SeqsUpTo(S, n - 1)
         IN  R \cup {Append(s, x) : s \in {r \in R : Len(r) = n - 1}, x \in S}

Quiet ==
    /\ proc = "up"
    /\ start = "idle"
    /\ cancelled = FALSE
    /\ ticker = NoTicker
    /\ tickC = 0
    /\ cycles = <<>>
    /\ ec = [called |-> FALSE, err |-> NIL]
    /\ logged = <<>>

\* New, applied to arguments drawn from the option lists up to MaxOpts.
InitNew ==
    /\ phase = "args"
    /\ args \in [g : Getters, opts : SeqsUpTo(Options, MaxOpts)]
    /\ p = NoPoller
    /\ newErr = NIL
    /\ Quiet

NewCall ==
    /\ phase = "args"
    /\ LET r == New(args.g, args.opts)
       IN  /\ p' = r.p
           /\ newErr' = r.err
    /\ phase' = "built"
    /\ UNCHANGED <<args, proc, start, cancelled, ticker, tickC, cycles, ec,
                   logged>>

NextNew == NewCall

SpecNew == InitNew /\ [][NextNew]_vars

\* The option lists of the Pollers that are run: an interval NewTicker
\* rejects or the default one, the capturer or the default handler, and
\* pushers, MaxRunOpts options at most.
RunOpts ==
    {opts \in
        {iv \o h \o ps :
            iv \in {<<>>, <<SetInterval(Int64(0))>>},
            h  \in {<<>>, <<SetOnError("ec.onError")>>},
            ps \in {[j \in 1..Len(fs) |-> SetPusher(fs[j])] :
                        fs \in SeqsUpTo(PusherFns, MaxRunOpts)}} :
        Len(opts) <= MaxRunOpts}

\* The state after New(g, opts...) has returned a Poller without failure.
Init ==
    /\ phase = "built"
    /\ args \in [g : Getters, opts : RunOpts]
    /\ p = New(args.g, args.opts).p
    /\ newErr = New(args.g, args.opts).err
    /\ Quiet

Next ==
    \/ PollCall
    \/ \E k \in 1..Len(cycles) : GetterCall(k)
    \/ \E k \in 1..Len(cycles), r \in GetterResults : GetterReturn(k, r)
    \/ \E k \in 1..Len(cycles) : PusherReturn(k)
    \/ \E k \in 1..Len(cycles) : OnErrorReturn(k)
    \/ StartCall
    \/ Cancel
    \/ PeriodElapses
    \/ StartDone
    \/ StartTick

Spec == Init /\ [][Next]_vars

\* The option lists of the Pollers whose handler is replaced: one SetOnError
\* for each of some of the handlers, in any order, then fewer than MaxRunOpts
\* pushers.
HandlerOpts ==
    {hs \o ps :
        hs \in {[j \in 1..Len(fs) |-> SetOnError(fs[j])] :
                    fs \in {f \in SeqsUpTo(Handlers, Cardinality(Handlers)) :
                                /\ f # <<>>
                                /\ \A i, j \in 1..Len(f) : f[i] = f[j] => i = j}},
        ps \in {[j \in 1..Len(fs) |-> SetPusher(fs[j])] :
                    fs \in SeqsUpTo(PusherFns, MaxRunOpts - 1)}}

\* The state after New(g, opts...) has returned such a Poller.
InitHandlers ==
    /\ phase = "built"
    /\ args \in [g : Getters \ {NIL}, opts : HandlerOpts]
    /\ p = New(args.g, args.opts).p
    /\ newErr = New(args.g, args.opts).err
    /\ Quiet

SpecHandlers == InitHandlers /\ [][Next]_vars

\* The runs of the Pollers whose cycles can run to their end under Start: a
\* getter that is a function, and the default interval.
InitCycles ==
    /\ Init
    /\ args.g # NIL
    /\ \A j \in 1..Len(args.opts) : args.opts[j].kind # "SetInterval"

SpecCycles == InitCycles /\ [][Next]_vars

\* Start, called on the Poller New returns for an interval taken from the
\* whole range of int64.
InitDuration ==
    /\ phase = "built"
    /\ args \in [g : Getters \ {NIL}, opts : {<<SetInterval(v)>> : v \in Int64s}]
    /\ p = New(args.g, args.opts).p
    /\ newErr = New(args.g, args.opts).err
    /\ Quiet

NextDuration == StartCall

SpecDuration == InitDuration /\ [][NextDuration]_vars

\* The runs of the Pollers built from fewer than MaxRunOpts options, in which
\* select takes a case that stays ready: once ctx.Done() is closed it is
\* ready at every pass of the loop.
InitFair == Init /\ Len(args.opts) < MaxRunOpts

FairSpec == InitFair /\ [][Next]_vars /\ WF_vars(StartDone)

\* The next step of cycle k, whichever it is.
CycleStep(k) ==
    /\ k \in 1..Len(cycles)
    /\ \/ GetterCall(k)
       \/ \E r \in GetterResults : GetterReturn(k, r)
       \/ PusherReturn(k)
       \/ OnErrorReturn(k)

\* The runs of the same Pollers in which, moreover, the getter, the pushers
\* and the handler return from every call, and the goroutine of every cycle
\* gets to run.
FairCycles ==
    /\ InitFair /\ [][Next]_vars
    /\ WF_vars(StartDone)
    /\ \A k \in 1..MaxCycles : WF_vars(CycleStep(k))

----------------------------------------------------------------------------
(* What the logs of the cycles say.                                        *)

\* The events ev of a cycle's log, in order.
Events(c, ev) == SelectSeq(c.log, LAMBDA e : e.ev = ev)

\* The failures a sequence of events carries, in order.
Failures(es) == SelectSeq(es, LAMBDA e : e.err # NIL)

ErrsOf(es) == [j \in 1..Len(es) |-> es[j].err]
FnsOf(es)  == [j \in 1..Len(es) |-> es[j].fn]
IdxOf(es)  == [j \in 1..Len(es) |-> es[j].idx]

\* The getter of cycle c has returned, with a failure / without one.
GetterFailed(c) ==
    Events(c, "getterRet") # <<>> /\ Events(c, "getterRet")[1].err # NIL
GetterSucceeded(c) ==
    Events(c, "getterRet") # <<>> /\ Events(c, "getterRet")[1].err = NIL

\* The SetPusher arguments of an option list, in the order of the list.
PushersOf(opts) ==
    FnsOf(SelectSeq(opts, LAMBDA o : o.kind = "SetPusher"))

\* The cycles Start has launched so far.
Launched == Len(SelectSeq(cycles, LAMBDA c : c.origin = "Start"))

----------------------------------------------------------------------------
(* Claims.                                                                 *)

\* C1: in a cycle whose getter has returned a failure, the error handler has
\* been invoked exactly once, with that failure, and no pusher has been or
\* is invoked, however many pushers are configured.
C1_GetterFailure ==
    \A k \in 1..Len(cycles) :
        LET c == cycles[k]
        IN  GetterFailed(c) =>
              /\ Events(c, "pusher") = <<>>
              /\ Len(Events(c, "onError")) = 1
              /\ Events(c, "onError")[1].err = Events(c, "getterRet")[1].err
              /\ Events(c, "onError")[1].fn = p.onError
              /\ c.pc \in {"inErrG", "done"}

\* A cycle of a Poller with pushers has ended after its getter failed.
C1_Witness ==
    \E k \in 1..Len(cycles) :
        /\ GetterFailed(cycles[k])
        /\ cycles[k].pc = "done"
        /\ Len(p.pushers) = 2

\* C2: in a cycle whose getter succeeded, the pushers are invoked one after
\* the other, each once, whatever the earlier ones returned; the handler is
\* invoked once per failure a pusher returned, with that failure, in the
\* order of the failing pushers; a cycle that has ended has invoked all N
\* pushers, and the handler M times.  After a lone Poll with the capturer of
\* the tests, the capturer holds the last failure, or nothing when M = 0.
C2_PusherFailures ==
    \A k \in 1..Len(cycles) :
        LET c    == cycles[k]
            N    == Len(p.pushers)
            rets == Events(c, "pusherRet")
        IN  GetterSucceeded(c) =>
              /\ IdxOf(Events(c, "pusher")) \in {[j \in 1..n |-> j] : n \in 0..N}
              /\ ErrsOf(Events(c, "onError")) = ErrsOf(Failures(rets))
              /\ \A j \in 1..Len(rets) :
                    rets[j].err = PusherResult(p.pushers[j], c.gr)
              /\ c.pc = "done" =>
                    /\ Len(Events(c, "pusher")) = N
                    /\ Len(rets) = N
                    /\ Len(cycles) = 1 /\ p.onError = "ec.onError" =>
                          /\ ec.called = (Failures(rets) # <<>>)
                          /\ ec.err = IF Failures(rets) = <<>> THEN NIL
                                      ELSE Last(Failures(rets)).err

\* A cycle has ended in which the first of two pushers failed and the second
\* did not.
C2_Witness ==
    \E k \in 1..Len(cycles) :
        LET rets == Events(cycles[k], "pusherRet")
        IN  /\ cycles[k].pc = "done"
            /\ Len(rets) = 2
            /\ rets[1].err # NIL
            /\ rets[2].err = NIL

C4_CancelStopsStart ==
    (p.getter # NIL /\ cancelled /\ start = "RUNNING")
        ~> (start = "STOPPED" /\ ~ticker.active)

\* Start has returned, its ticker stopped, while a cycle it launched is still
\* in flight.
C4_Witness ==
    /\ start = "STOPPED" /\ ~ticker.active /\ cancelled
    /\ p.getter # NIL
    /\ \E k \in 1..Len(cycles) :
          cycles[k].origin = "Start" /\ cycles[k].pc \in {"inGetter", "inPusher"}

\* C5: for every Poller New can return, once Start has been invoked it is
\* RUNNING as long as the context is not cancelled.
C5_OnlyCancelEndsStart ==
    (start # "idle" /\ ~cancelled) => (start = "RUNNING" /\ proc = "up")

\* C6: the interval of every Poller New returns is strictly positive.
C6_IntervalPositive ==
    (phase = "built" /\ newErr = NIL) => Positive64(p.interval)

\* A Start run has lasted D: ticker.fired whole periods and a part of one, so
\* floor(D / I) is ticker.fired and ceil(D / I) is that or one more.
FloorDI == ticker.fired
CeilDI == {ticker.fired, ticker.fired + 1}

HasFailure(c) == Failures(c.log) # <<>>

\* C8: a step in which a cycle meets a failure (of its getter or of a pusher),
\* or goes on after one, leaves the tick loop as it is and the process up,
\* calls nothing a second time, and a tick that is ready in the RUNNING loop
\* can still launch a cycle, whatever failures the cycles have met.
C8_FailureLeavesLoop ==
    [][ /\ \A k \in 1..Len(cycles) :
              (cycles'[k] # cycles[k] /\ HasFailure(cycles'[k])) =>
                  /\ <<start, cancelled, ticker, tickC>>' =
                        <<start, cancelled, ticker, tickC>>
                  /\ proc' = "up"
                  /\ Len(Events(cycles'[k], "getter")) = 1
                  /\ \A i, j \in 1..Len(Events(cycles'[k], "pusher")) :
                        i # j => Events(cycles'[k], "pusher")[i].idx #
                                 Events(cycles'[k], "pusher")[j].idx
        /\ (/\ \E k \in 1..Len(cycles) : HasFailure(cycles[k])
            /\ start = "RUNNING" /\ tickC > 0 /\ Len(cycles) < MaxCycles)
              => ENABLED StartTick
      ]_vars

\* A cycle Start launched has ended with a failure, and Start, still RUNNING,
\* has launched the next cycle, which has invoked the getter.
C8_Witness ==
    /\ start = "RUNNING"
    /\ Len(cycles) = 2
    /\ cycles[1].origin = "Start" /\ cycles[1].pc = "done"
    /\ HasFailure(cycles[1])
    /\ cycles[2].origin = "Start" /\ cycles[2].pc = "inGetter"

----------------------------------------------------------------------------
(* Claims about New.                                                       *)

\* The index of the first directive of opts that fails, 0 if none does.
FirstFail(opts) ==
    IF \E j \in 1..Len(opts) : opts[j].kind = "Fail"
    THEN CHOOSE j \in 1..Len(opts) :
            /\ opts[j].kind = "Fail"
            /\ \A i \in 1..(j - 1) : opts[i].kind # "Fail"
    ELSE 0

\* The directives New has applied: those before the first that fails.
AppliedOpts(opts) ==
    IF FirstFail(opts) = 0 THEN opts ELSE SubSeq(opts, 1, FirstFail(opts) - 1)

\* The directives of ds one after the other, from Poller q on.
RECURSIVE FoldOpts(_, _)
FoldOpts(q, ds) ==
    IF ds = <<>> THEN q ELSE FoldOpts(ApplyOpt(q, Head(ds)).p, Tail(ds))

\* C9: New returns the failure of the first directive that fails, with the
\* directives before it applied in order and none after it; when no
\* directive fails, it returns no failure and the Poller with all of them
\* applied in order.
C9_FirstFailure ==
    phase = "built" =>
        LET k == FirstFail(args.opts)
        IN  /\ newErr = IF k = 0 THEN NIL ELSE args.opts[k].fn
            /\ p = FoldOpts(DefaultPoller(args.g), AppliedOpts(args.opts))

\* New has returned the failure of a directive that stood between two
\* SetPusher directives.
C9_Witness ==
    /\ phase = "built"
    /\ newErr = ErrOpt
    /\ Len(args.opts) = 3
    /\ args.opts[1].kind = "SetPusher"
    /\ args.opts[2].kind = "Fail"
    /\ args.opts[3].kind = "SetPusher"

\* The last directive of kind kind in ds, as a sequence of at most one.
LastOf(ds, kind) ==
    LET sel == SelectSeq(ds, LAMBDA o : o.kind = kind)
    IN  IF sel = <<>> THEN <<>> ELSE <<Last(sel)>>

\* C10: each directive changes one attribute of the Poller and no other:
\* SetInterval(v) the interval, to v; SetPusher(fn) the pushers, to the
\* earlier ones followed by fn; SetOnError(fn) the handler, to fn.  So the
\* Poller New returns has the interval of the last SetInterval applied (or
\* the default), the pushers of the SetPusher directives applied, in their
\* order, and the handler of the last SetOnError applied (or the default).
C10_Directives ==
    phase = "built" =>
        /\ \A o \in Options :
              LET r == ApplyOpt(p, o)
              IN  /\ o.kind = "SetInterval" =>
                        /\ r.p.interval = o.v /\ r.err = NIL
                        /\ r.p.getter = p.getter /\ r.p.pushers = p.pushers
                        /\ r.p.onError = p.onError
                  /\ o.kind = "SetPusher" =>
                        /\ r.p.pushers = p.pushers \o <<o.fn>> /\ r.err = NIL
                        /\ r.p.getter = p.getter /\ r.p.interval = p.interval
                        /\ r.p.onError = p.onError
                  /\ o.kind = "SetOnError" =>
                        /\ r.p.onError = o.fn /\ r.err = NIL
                        /\ r.p.getter = p.getter /\ r.p.interval = p.interval
                        /\ r.p.pushers = p.pushers
        /\ LET ds == AppliedOpts(args.opts)
               iv == LastOf(ds, "SetInterval")
               h  == LastOf(ds, "SetOnError")
           IN  /\ p.interval = IF iv = <<>> THEN Int64(DefaultInterval)
                               ELSE iv[1].v
               /\ p.pushers = PushersOf(ds)
               /\ p.onError = IF h = <<>> THEN "defaultOnError" ELSE h[1].fn
               /\ p.getter = args.g

\* New has returned a Poller built from two SetInterval directives with
\* different values and, between them, a SetPusher.
C10_Witness ==
    /\ phase = "built" /\ newErr = NIL
    /\ Len(args.opts) = 3
    /\ args.opts[1].kind = "SetInterval"
    /\ args.opts[2].kind = "SetPusher"
    /\ args.opts[3].kind = "SetInterval"
    /\ args.opts[1].v # args.opts[3].v

\* C11: New called with no directive, whatever the getter (a nil one too),
\* returns no failure and a Poller with the interval 30000 ms, no pusher, the
\* default logging handler, and the getter it was given.
C11_Defaults ==
    (phase = "built" /\ args.opts = <<>>) =>
        /\ newErr = NIL
        /\ p.interval = Int64(30000)
        /\ p.pushers = <<>>
        /\ p.onError = "defaultOnError"
        /\ p.getter = args.g

\* New has returned from a call with a nil getter and no directive.
C11_Witness ==
    phase = "built" /\ args.opts = <<>> /\ args.g = NIL

----------------------------------------------------------------------------
(* Claims about the handler and the values of a cycle.                     *)

\* The SetOnError arguments of an option list, in the order of the list.
HandlersOf(opts) ==
    FnsOf(SelectSeq(opts, LAMBDA o : o.kind = "SetOnError"))

\* C12: for a Poller configured with SetOnError, every failure of every
\* cycle, of the getter or of a pusher, is handed to the handler of the last
\* SetOnError directive and to no other: the default handler logs nothing,
\* and the capturer records a failure only when it is that last handler.
C12_HandlerReplaced ==
    LET hs == HandlersOf(args.opts)
        called == \E k \in 1..Len(cycles) : Events(cycles[k], "onError") # <<>>
    IN  hs # <<>> =>
          /\ logged = <<>>
          /\ \A k \in 1..Len(cycles) :
                LET c     == cycles[k]
                    calls == Events(c, "onError")
                    rets  == Events(c, "getterRet") \o Events(c, "pusherRet")
                IN  /\ \A j \in 1..Len(calls) : calls[j].fn = Last(hs)
                    /\ ErrsOf(calls) = ErrsOf(Failures(rets))
          /\ ec.called = (Last(hs) = "ec.onError" /\ called)

\* With the capturer set first and another handler after it, one cycle has
\* ended on a failure of its getter and one on a failure of its pusher, and
\* the capturer has recorded nothing.
C12_Witness ==
    /\ HandlersOf(args.opts) = <<"ec.onError", "drop">>
    /\ Len(cycles) = 2
    /\ cycles[1].pc = "done" /\ GetterFailed(cycles[1])
    /\ cycles[2].pc = "done" /\ Failures(Events(cycles[2], "pusherRet")) # <<>>
    /\ ~ec.called

\* C13: every pusher invoked in a cycle is given the value that the getter
\* call of that same cycle returned: the pushers of one cycle all get the
\* same value, also when another cycle with another value is in flight.
C13_SameValue ==
    \A k \in 1..Len(cycles) :
        LET calls == Events(cycles[k], "pusher")
            gets  == Events(cycles[k], "getterRet")
        IN  calls # <<>> =>
              /\ Len(gets) = 1
              /\ gets[1].err = NIL /\ gets[1].arg \in Values
              /\ \A j \in 1..Len(calls) : calls[j].arg = gets[1].arg

\* Two cycles whose getters returned different values are in flight
\* together, the first at its second pusher and the second at a pusher.
C13_Witness ==
    /\ Len(cycles) = 2
    /\ cycles[1].pc = "inPusher" /\ cycles[1].i = 2
    /\ cycles[2].pc = "inPusher"
    /\ cycles[1].gr # cycles[2].gr

----------------------------------------------------------------------------
(* Claims about the tick loop and the cycles it launches.                  *)

\* C14: once the context is cancelled, the loop takes the cancellation
\* branch even when a tick is ready too: no step launches a cycle from a
\* state in which the context is already cancelled.
C14_CancelPrecedence ==
    [][cancelled => Launched' = Launched]_vars

\* The cycles that have not ended.
InFlight == {k \in 1..Len(cycles) : cycles[k].pc # "done"}

\* C15: a step of Start that receives a tick launches one new cycle and
\* leaves the others as they are, and a cycle is launched by Start only in
\* such a step, one per tick; Start never waits for a cycle: a tick that is
\* ready in the RUNNING loop can be received whatever the cycles in flight.
C15_OneCyclePerTick ==
    [][ /\ tickC' < tickC =>
              /\ tickC' = tickC - 1
              /\ cycles' = Append(cycles, NewCycle("Start"))
        /\ Launched' # Launched =>
              /\ Launched' = Launched + 1
              /\ tickC' = tickC - 1
        /\ (Up /\ start = "RUNNING" /\ tickC > 0 /\ Len(cycles) < MaxCycles)
              => ENABLED StartTick
      ]_vars

\* As many cycles as MaxCycles allows, all launched by Start, are in flight
\* at once, each inside its getter or a pusher, while Start is RUNNING.
C15_Witness ==
    /\ start = "RUNNING"
    /\ Len(cycles) = MaxCycles /\ Len(cycles) >= 2
    /\ InFlight = 1..Len(cycles)
    /\ \A k \in 1..Len(cycles) :
          cycles[k].origin = "Start" /\ cycles[k].pc \in {"inGetter", "inPusher"}

\* Cycle c has run to its end: the getter was invoked, and after a failure
\* of it the handler; after a value, every pusher, and the handler for every
\* failure of a pusher.
Completed(c) ==
    /\ c.pc = "done"
    /\ Len(Events(c, "getterRet")) = 1
    /\ GetterFailed(c) => Len(Events(c, "onErrorRet")) = 1
    /\ GetterSucceeded(c) =>
          /\ FnsOf(Events(c, "pusherRet")) = p.pushers
          /\ Len(Events(c, "onErrorRet")) =
                Len(Failures(Events(c, "pusherRet")))

\* C16: once the context is cancelled, every cycle Start has launched, before
\* the cancellation or after it, runs to its end, also when Start has
\* returned, as long as the getter, the pushers and the handler return (for
\* a Poller that has a getter).
C16_CycleCompletes ==
    (p.getter # NIL /\ cancelled)
        ~> (\A k \in 1..Len(cycles) :
                cycles[k].origin = "Start" => Completed(cycles[k]))

\* Start has returned on the cancellation; one cycle it launched has run to
\* its end with a failure of its pusher handled, and another one it launched
\* has not begun to run yet.
C16_Witness ==
    /\ start = "STOPPED" /\ cancelled
    /\ Len(cycles) = 2
    /\ \A k \in 1..2 : cycles[k].origin = "Start"
    /\ Completed(cycles[1]) /\ Len(Events(cycles[1], "onErrorRet")) = 1
    /\ GetterSucceeded(cycles[1])
    /\ cycles[2].pc = "start"

\* C17: a cycle that has begun has invoked the getter once, first of all;
\* when it has invoked a pusher, the getter's call had returned before; and
\* it has invoked no pusher twice, whatever the calls returned.
C17_GetterOnceFirst ==
    \A k \in 1..Len(cycles) :
        LET c     == cycles[k]
            calls == Events(c, "pusher")
        IN  c.pc # "start" =>
              /\ Len(Events(c, "getter")) = 1
              /\ c.log[1].ev = "getter"
              /\ Len(Events(c, "getterRet")) <= 1
              /\ calls # <<>> => c.log[2].ev = "getterRet"
              /\ \A i, j \in 1..Len(calls) :
                    calls[i].idx = calls[j].idx => i = j

\* A cycle has ended in which both of two pushers failed.
C17_Witness ==
    \E k \in 1..Len(cycles) :
        /\ cycles[k].pc = "done"
        /\ Len(Failures(Events(cycles[k], "pusherRet"))) = 2

\* C18: running never changes the configuration: whatever Start and the
\* cycles have done, the Poller's interval, getter, handler and pushers (the
\* elements and their order) are those New returned.
C18_ConfigReadOnly ==
    /\ p = New(args.g, args.opts).p
    /\ p.getter = args.g
    /\ p.pushers = PushersOf(args.opts)

\* Two periods have elapsed and two cycles that Start launched are in flight
\* together, one at the second of two different pushers and one in the
\* handler for the failure of the first.
C18_Witness ==
    /\ ticker.fired = 2
    /\ Len(cycles) = 2
    /\ \A k \in 1..2 : cycles[k].origin = "Start"
    /\ PushersOf(args.opts) = <<"puFail", "puCount">>
    /\ cycles[1].pc = "inPusher" /\ cycles[1].i = 2
    /\ cycles[2].pc = "inErrP" /\ cycles[2].i = 1

----------------------------------------------------------------------------
(* Claims about the interval's conversion to a duration.                   *)

\* x in a width of n more limbs, with its sign.
SignExtend(x, n) ==
    x \o [j \in 1..n |-> IF Negative64(x) THEN Base - 1 ELSE 0]

\* v milliseconds in nanoseconds, exactly: the product in 96 bits, in which
\* every int64 times 1000000 fits.
ExactNanoseconds(v) ==
    MulSmall(MulSmall(SignExtend(v, 2), Thousand, 0), Thousand, 0)

\* C20: for every int64 v given to SetInterval, the period Start computes
\* for its ticker is v milliseconds: the int64 product of v and 1000000 is
\* the exact product, so Start panics in NewTicker only for a v <= 0 and
\* otherwise runs a ticker of exactly that period.
C20_NoOverflow ==
    start # "idle" =>
        /\ SignExtend(TickerPeriod(p), 2) = ExactNanoseconds(p.interval)
        /\ start = "PANICKED" => ~Positive64(p.interval)
        /\ start = "RUNNING" =>
              /\ Positive64(p.interval)
              /\ SignExtend(ticker.period, 2) = ExactNanoseconds(p.interval)

====
